---------------------------- MODULE Spec2Model ----------------------------
(***************************************************************************)
(* A state-machine model of src/militaryGameAsset.cpp: one                 *)
(* MilitaryCharacter and a pool of Weapon objects it may pick up.          *)
(*                                                                         *)
(* Numbers.  The floats of the source are represented exactly by scaled    *)
(* integers: speeds and velocity components are in tenths of a unit per    *)
(* second (5.0f is 50, the 0.1f walk threshold is 1), the two speed        *)
(* multipliers are in tenths (0.5f is 5, 1.5f is 15), angles are whole     *)
(* degrees and deltaTime is in quarter seconds (1.0f is 4).  Every value   *)
(* the model computes is exactly representable as a float, so no rounding  *)
(* is hidden.                                                              *)
(*                                                                         *)
(* Not modelled: position and the PhysicsComponent (an external            *)
(* collaborator that only receives the position), health and stamina       *)
(* (never read), and the clip data behind an animation name.               *)
(***************************************************************************)
EXTENDS Integers, Sequences, FiniteSets, TLC

VARIABLES
    animState,        \* MilitaryCharacter::animState, the five flags
    rotation,         \* MilitaryCharacter::rotation, <<x, y, z>> in degrees
    velocity,         \* MilitaryCharacter::velocity, [nan, v] with v in tenths
    currentWeapon,    \* MilitaryCharacter::currentWeapon, a weapon id or nullptr
    inventory,        \* MilitaryCharacter::inventory, a sequence of weapon ids
    currentAnimation, \* name of the clip in currentAnimation, "none" when null
    weapons,          \* the Weapon objects, by id
    call              \* the last public call: its name, arguments and result

vars == <<animState, rotation, velocity, currentWeapon, inventory,
          currentAnimation, weapons, call>>

---------------------------------------------------------------------------
(* Bounds of the model *)

NumWeapons == 1
MaxAmmo == 1
MaxYawDelta == 1
MaxDeltaTime == 4
MaxProbeSpeed == 3

---------------------------------------------------------------------------
(* Program constants *)

MAX_WEAPONS == 3
speed == 50
rotationSpeed == 180
crouchSpeedMultiplier == 5
sprintSpeedMultiplier == 15
WalkThreshold == 1
FullTurn == 360
nullptr == 0

animations == {"idle", "walk", "run", "crouch", "shoot", "reload"}

---------------------------------------------------------------------------
(* Inputs *)

WeaponIds == 1..NumWeapons
WeaponArgs == WeaponIds \cup {nullptr}
YawDeltas == ((0 - MaxYawDelta)..MaxYawDelta) \cup {90}
DeltaTimes == 1..MaxDeltaTime
Directions == {<<0, 0, -2>>, <<0, 0, 0>>}

---------------------------------------------------------------------------
(* Vector and float helpers *)

Abs(x) == IF x < 0 THEN 0 - x ELSE x

\* glm::length for a vector with at most one non-zero component
Length(v) == Abs(v[1]) + Abs(v[2]) + Abs(v[3])

Vec(v) == [nan |-> FALSE, v |-> v]
NaNVec == [nan |-> TRUE, v |-> <<0, 0, 0>>]

\* fmod: the remainder has the sign of the dividend
fmod(x, m) == IF x >= 0 THEN x % m ELSE 0 - ((0 - x) % m)

\* glm::normalize(direction) * currentSpeed.  Normalizing the zero vector
\* divides by zero: the build yields NaN components (IEEE) or, when it
\* flushes the product, the zero vector.
ScaledDirection(direction, currentSpeed) ==
    LET len == Length(direction)
    IN  IF len = 0
        THEN {NaNVec, Vec(<<0, 0, 0>>)}
        ELSE {Vec(<<(direction[1] \div len) * currentSpeed,
                    (direction[2] \div len) * currentSpeed,
                    (direction[3] \div len) * currentSpeed>>)}

\* glm::length(velocity) > 0.1f ; every comparison with NaN is false
FasterThanWalkThreshold(vel) == ~vel.nan /\ Length(vel.v) > WalkThreshold

---------------------------------------------------------------------------
(* Weapon *)

NewWeapon(ammo) ==
    [maxAmmo |-> MaxAmmo, currentAmmo |-> ammo,
     lastShotTime |-> 0, isReloading |-> FALSE]

CanShoot_IgnoresReloading(wp) == wp.currentAmmo > 0

CanShoot(wp) == ~wp.isReloading /\ wp.currentAmmo > 0

NeedsReload_WhenCannotShoot(wp) == wp.isReloading \/ wp.currentAmmo = 0

NeedsReload(wp) == wp.currentAmmo = 0

GetCurrentTime == 0

WeaponShoot_NoGuard(wp) ==
    [wp EXCEPT !.currentAmmo = @ - 1, !.lastShotTime = GetCurrentTime]

WeaponShoot(wp) ==
    IF CanShoot(wp)
    THEN [wp EXCEPT !.currentAmmo = @ - 1, !.lastShotTime = GetCurrentTime]
    ELSE wp

StartReload_Refills(wp) ==
    IF ~wp.isReloading
    THEN [wp EXCEPT !.isReloading = TRUE, !.currentAmmo = wp.maxAmmo]
    ELSE wp

StartReload(wp) ==
    IF ~wp.isReloading THEN [wp EXCEPT !.isReloading = TRUE] ELSE wp

---------------------------------------------------------------------------
(* Animation selection *)

DetermineAnimation_RunBeforeCrouch(as, vel) ==
    IF as.isReloading THEN "reload"
    ELSE IF as.isShooting THEN "shoot"
    ELSE IF as.isRunning THEN "run"
    ELSE IF as.isCrouching THEN "crouch"
    ELSE IF FasterThanWalkThreshold(vel) THEN "walk"
    ELSE "idle"

DetermineAnimation_CrouchBeforeShoot(as, vel) ==
    IF as.isReloading THEN "reload"
    ELSE IF as.isCrouching THEN "crouch"
    ELSE IF as.isShooting THEN "shoot"
    ELSE IF as.isRunning THEN "run"
    ELSE IF FasterThanWalkThreshold(vel) THEN "walk"
    ELSE "idle"

DetermineAnimation(as, vel) ==
    IF as.isReloading THEN "reload"
    ELSE IF as.isShooting THEN "shoot"
    ELSE IF as.isCrouching THEN "crouch"
    ELSE IF as.isRunning THEN "run"
    ELSE IF FasterThanWalkThreshold(vel) THEN "walk"
    ELSE "idle"

\* the clip playing after PlayAnimation(animName) when cur was playing
PlayAnimation(animName, cur) ==
    IF animName \in animations THEN animName ELSE cur

UpdateAnimation(as, vel, cur) == PlayAnimation(DetermineAnimation(as, vel), cur)

---------------------------------------------------------------------------
(* Construction.  Every weapon starts full; a weapon constructed with     *)
(* less ammunition is the state direct Weapon::Shoot calls lead to.       *)

NoArgs == <<>>
Called(op, arg, ret) == [op |-> op, arg |-> arg, ret |-> ret]

DefaultAnimState_Aiming ==
    [isRunning |-> FALSE, isCrouching |-> FALSE, isAiming |-> TRUE,
     isShooting |-> FALSE, isReloading |-> FALSE]

DefaultAnimState ==
    [isRunning |-> FALSE, isCrouching |-> FALSE, isAiming |-> FALSE,
     isShooting |-> FALSE, isReloading |-> FALSE]

Init ==
    /\ animState = DefaultAnimState
    /\ rotation = <<0, 0, 0>>
    /\ velocity = Vec(<<0, 0, 0>>)
    /\ currentWeapon = nullptr
    /\ inventory = <<>>
    /\ currentAnimation = "none"
    /\ weapons = [w \in WeaponIds |-> NewWeapon(MaxAmmo)]
    /\ call = Called("MilitaryCharacter", NoArgs, TRUE)

---------------------------------------------------------------------------
(* MilitaryCharacter operations *)

CurrentSpeed_SprintFirst ==
    IF animState.isRunning THEN (speed * sprintSpeedMultiplier) \div 10
    ELSE IF animState.isCrouching THEN (speed * crouchSpeedMultiplier) \div 10
    ELSE speed

CurrentSpeed ==
    IF animState.isCrouching THEN (speed * crouchSpeedMultiplier) \div 10
    ELSE IF animState.isRunning THEN (speed * sprintSpeedMultiplier) \div 10
    ELSE speed

Move_UpdatesAnimationFirst(direction, deltaTime) ==
    /\ currentAnimation' = UpdateAnimation(animState, velocity, currentAnimation)
    /\ velocity' \in ScaledDirection(direction, CurrentSpeed)
    /\ UNCHANGED <<animState, rotation, currentWeapon, inventory, weapons>>

Move(direction, deltaTime) ==
    /\ velocity' \in ScaledDirection(direction, CurrentSpeed)
    /\ currentAnimation' = UpdateAnimation(animState, velocity', currentAnimation)
    /\ UNCHANGED <<animState, rotation, currentWeapon, inventory, weapons>>

Rotate_NoRotationSpeed(yawDelta, deltaTime) ==
    /\ rotation' = [rotation EXCEPT
                      ![2] = fmod(@ + (yawDelta * deltaTime) \div 4, FullTurn)]
    /\ UNCHANGED <<animState, velocity, currentWeapon, inventory,
                   currentAnimation, weapons>>

Rotate(yawDelta, deltaTime) ==
    /\ rotation' = [rotation EXCEPT
                      ![2] = fmod(@ + (yawDelta * rotationSpeed * deltaTime) \div 4,
                                  FullTurn)]
    /\ UNCHANGED <<animState, velocity, currentWeapon, inventory,
                   currentAnimation, weapons>>

PickupWeapon_OffByOne(weapon) ==
    /\ IF Len(inventory) <= MAX_WEAPONS
       THEN /\ inventory' = Append(inventory, weapon)
            /\ currentWeapon' =
                 IF currentWeapon = nullptr THEN weapon ELSE currentWeapon
            /\ call' = Called("PickupWeapon", <<weapon>>, TRUE)
       ELSE /\ UNCHANGED <<inventory, currentWeapon>>
            /\ call' = Called("PickupWeapon", <<weapon>>, FALSE)
    /\ UNCHANGED <<animState, rotation, velocity, currentAnimation, weapons>>

PickupWeapon(weapon) ==
    /\ IF Len(inventory) < MAX_WEAPONS
       THEN /\ inventory' = Append(inventory, weapon)
            /\ currentWeapon' =
                 IF currentWeapon = nullptr THEN weapon ELSE currentWeapon
            /\ call' = Called("PickupWeapon", <<weapon>>, TRUE)
       ELSE /\ UNCHANGED <<inventory, currentWeapon>>
            /\ call' = Called("PickupWeapon", <<weapon>>, FALSE)
    /\ UNCHANGED <<animState, rotation, velocity, currentAnimation, weapons>>

Reload_NoWeaponCheck ==
    /\ IF ~animState.isReloading
       THEN /\ animState' = [animState EXCEPT !.isReloading = TRUE]
            /\ weapons' = IF currentWeapon # nullptr
                          THEN [weapons EXCEPT ![currentWeapon] = StartReload(@)]
                          ELSE weapons
            /\ currentAnimation' = PlayAnimation("reload", currentAnimation)
       ELSE UNCHANGED <<animState, weapons, currentAnimation>>
    /\ UNCHANGED <<rotation, velocity, currentWeapon, inventory>>

Reload ==
    /\ IF currentWeapon # nullptr /\ ~animState.isReloading
       THEN /\ animState' = [animState EXCEPT !.isReloading = TRUE]
            /\ weapons' = [weapons EXCEPT ![currentWeapon] = StartReload(@)]
            /\ currentAnimation' = PlayAnimation("reload", currentAnimation)
       ELSE UNCHANGED <<animState, weapons, currentAnimation>>
    /\ UNCHANGED <<rotation, velocity, currentWeapon, inventory>>

Shoot_NoReloadBranch ==
    /\ IF currentWeapon # nullptr /\ ~animState.isReloading
          /\ CanShoot(weapons[currentWeapon])
       THEN /\ animState' = [animState EXCEPT !.isShooting = TRUE]
            /\ weapons' = [weapons EXCEPT ![currentWeapon] = WeaponShoot(@)]
            /\ currentAnimation' = PlayAnimation("shoot", currentAnimation)
       ELSE UNCHANGED <<animState, weapons, currentAnimation>>
    /\ UNCHANGED <<rotation, velocity, currentWeapon, inventory>>

Shoot_ReloadsAfterFiring ==
    IF currentWeapon # nullptr /\ ~animState.isReloading
    THEN IF CanShoot(weapons[currentWeapon])
         THEN LET shot == WeaponShoot(weapons[currentWeapon])
              IN  /\ animState' = [animState EXCEPT
                                     !.isShooting = TRUE,
                                     !.isReloading = NeedsReload(shot)]
                  /\ weapons' = [weapons EXCEPT ![currentWeapon] =
                                   IF NeedsReload(shot)
                                   THEN StartReload(shot) ELSE shot]
                  /\ currentAnimation' =
                       PlayAnimation(IF NeedsReload(shot)
                                     THEN "reload" ELSE "shoot",
                                     currentAnimation)
                  /\ UNCHANGED <<rotation, velocity, currentWeapon, inventory>>
         ELSE IF NeedsReload(weapons[currentWeapon])
              THEN Reload
              ELSE UNCHANGED <<animState, weapons, currentAnimation,
                               rotation, velocity, currentWeapon, inventory>>
    ELSE UNCHANGED <<animState, weapons, currentAnimation,
                     rotation, velocity, currentWeapon, inventory>>

Shoot ==
    IF currentWeapon # nullptr /\ ~animState.isReloading
    THEN IF CanShoot(weapons[currentWeapon])
         THEN /\ animState' = [animState EXCEPT !.isShooting = TRUE]
              /\ weapons' = [weapons EXCEPT ![currentWeapon] = WeaponShoot(@)]
              /\ currentAnimation' = PlayAnimation("shoot", currentAnimation)
              /\ UNCHANGED <<rotation, velocity, currentWeapon, inventory>>
         ELSE IF NeedsReload(weapons[currentWeapon])
              THEN Reload
              ELSE UNCHANGED <<animState, weapons, currentAnimation,
                               rotation, velocity, currentWeapon, inventory>>
    ELSE UNCHANGED <<animState, weapons, currentAnimation,
                     rotation, velocity, currentWeapon, inventory>>

ToggleCrouch ==
    /\ animState' = [animState EXCEPT !.isCrouching = ~@]
    /\ currentAnimation' = UpdateAnimation(animState', velocity, currentAnimation)
    /\ UNCHANGED <<rotation, velocity, currentWeapon, inventory, weapons>>

StartSprint_NoCrouchGuard ==
    /\ IF ~animState.isAiming
       THEN /\ animState' = [animState EXCEPT !.isRunning = TRUE]
            /\ currentAnimation' =
                 UpdateAnimation(animState', velocity, currentAnimation)
       ELSE UNCHANGED <<animState, currentAnimation>>
    /\ UNCHANGED <<rotation, velocity, currentWeapon, inventory, weapons>>

StartSprint ==
    /\ IF ~animState.isCrouching /\ ~animState.isAiming
       THEN /\ animState' = [animState EXCEPT !.isRunning = TRUE]
            /\ currentAnimation' =
                 UpdateAnimation(animState', velocity, currentAnimation)
       ELSE UNCHANGED <<animState, currentAnimation>>
    /\ UNCHANGED <<rotation, velocity, currentWeapon, inventory, weapons>>

StopSprint_ClearsReloading ==
    /\ animState' = [animState EXCEPT !.isRunning = FALSE, !.isReloading = FALSE]
    /\ currentAnimation' = UpdateAnimation(animState', velocity, currentAnimation)
    /\ UNCHANGED <<rotation, velocity, currentWeapon, inventory, weapons>>

StopSprint ==
    /\ animState' = [animState EXCEPT !.isRunning = FALSE]
    /\ currentAnimation' = UpdateAnimation(animState', velocity, currentAnimation)
    /\ UNCHANGED <<rotation, velocity, currentWeapon, inventory, weapons>>

---------------------------------------------------------------------------
(* The public calls a game loop can make, one action each *)

MoveCall ==
    \E direction \in Directions, deltaTime \in DeltaTimes :
        /\ Move(direction, deltaTime)
        /\ call' = Called("Move", direction, TRUE)

RotateCall ==
    \E yawDelta \in YawDeltas, deltaTime \in DeltaTimes :
        /\ Rotate(yawDelta, deltaTime)
        /\ call' = Called("Rotate", <<yawDelta, deltaTime>>, TRUE)

PickupWeaponCall == \E weapon \in WeaponArgs : PickupWeapon(weapon)

ShootCall == Shoot /\ call' = Called("Shoot", NoArgs, TRUE)

ReloadCall == Reload /\ call' = Called("Reload", NoArgs, TRUE)

ToggleCrouchCall == ToggleCrouch /\ call' = Called("ToggleCrouch", NoArgs, TRUE)

StartSprintCall == StartSprint /\ call' = Called("StartSprint", NoArgs, TRUE)

StopSprintCall == StopSprint /\ call' = Called("StopSprint", NoArgs, TRUE)

UpdateAnimationCall ==
    /\ currentAnimation' = UpdateAnimation(animState, velocity, currentAnimation)
    /\ call' = Called("UpdateAnimation", NoArgs, TRUE)
    /\ UNCHANGED <<animState, rotation, velocity, currentWeapon, inventory,
                   weapons>>

\* Weapon::Shoot and Weapon::StartReload are public: any holder of the
\* shared pointer may call them directly.
WeaponShootCall ==
    \E w \in WeaponIds :
        /\ weapons' = [weapons EXCEPT ![w] = WeaponShoot(@)]
        /\ call' = Called("Weapon::Shoot", <<w>>, TRUE)
        /\ UNCHANGED <<animState, rotation, velocity, currentWeapon,
                       inventory, currentAnimation>>

WeaponStartReloadCall ==
    \E w \in WeaponIds :
        /\ weapons' = [weapons EXCEPT ![w] = StartReload(@)]
        /\ call' = Called("Weapon::StartReload", <<w>>, TRUE)
        /\ UNCHANGED <<animState, rotation, velocity, currentWeapon,
                       inventory, currentAnimation>>

Next ==
    \/ MoveCall
    \/ RotateCall
    \/ PickupWeaponCall
    \/ ShootCall
    \/ ReloadCall
    \/ ToggleCrouchCall
    \/ StartSprintCall
    \/ StopSprintCall
    \/ UpdateAnimationCall
    \/ WeaponShootCall
    \/ WeaponStartReloadCall

Spec == Init /\ [][Next]_vars

---------------------------------------------------------------------------
(* Sub-specifications.  Rotate reads and writes rotation only, and no     *)
(* other operation touches rotation, so the rotation claims are checked   *)
(* with Rotate alone and the others without it.                           *)

NextCharacter ==
    \/ MoveCall
    \/ PickupWeaponCall
    \/ ShootCall
    \/ ReloadCall
    \/ ToggleCrouchCall
    \/ StartSprintCall
    \/ StopSprintCall
    \/ UpdateAnimationCall
    \/ WeaponShootCall
    \/ WeaponStartReloadCall

SpecCharacter == Init /\ [][NextCharacter]_vars

\* The character as the only caller of its weapons: no direct Weapon calls.
NextSoleCaller ==
    \/ MoveCall
    \/ PickupWeaponCall
    \/ ShootCall
    \/ ReloadCall
    \/ ToggleCrouchCall
    \/ StartSprintCall
    \/ StopSprintCall
    \/ UpdateAnimationCall

SpecSoleCaller == Init /\ [][NextSoleCaller]_vars

SpecRotation == Init /\ [][RotateCall]_vars

\* DetermineAnimation as a function of its inputs: every combination of the
\* five flags, and velocities on both sides of the walk threshold.
ProbeVelocities ==
    {Vec(<<0, 0, s>>) : s \in 0..MaxProbeSpeed}
        \cup {Vec(<<0 - speed, 0, 0>>), NaNVec}

InitAnyFlags ==
    /\ animState \in [isRunning : BOOLEAN, isCrouching : BOOLEAN,
                       isAiming : BOOLEAN, isShooting : BOOLEAN,
                       isReloading : BOOLEAN]
    /\ velocity \in ProbeVelocities
    /\ rotation = <<0, 0, 0>>
    /\ currentWeapon = nullptr
    /\ inventory = <<>>
    /\ currentAnimation = "none"
    /\ weapons = [w \in WeaponIds |-> NewWeapon(MaxAmmo)]
    /\ call = Called("MilitaryCharacter", NoArgs, TRUE)

SpecAnimation == InitAnyFlags /\ [][UpdateAnimationCall]_vars

---------------------------------------------------------------------------
(* Properties *)

\* the program's state, without the record of the last call
progVars == <<animState, rotation, velocity, currentWeapon, inventory,
              currentAnimation, weapons>>

InventorySet == {inventory[i] : i \in 1..Len(inventory)}

EquippedAmmo == weapons[currentWeapon].currentAmmo

\* C1: for every combination of the five flags and every velocity,
\* DetermineAnimation yields exactly one of the six clip names, the first
\* match in the order isReloading -> reload, isShooting -> shoot,
\* isCrouching -> crouch, isRunning -> run, speed > 0.1 -> walk, else idle.
\* (UpdateAnimation plays the name DetermineAnimation returns.)
C1_AnimationPriority ==
    call.op = "UpdateAnimation" =>
        LET as == animState
            fast == ~velocity.nan /\ Length(velocity.v) > 1
        IN  /\ currentAnimation \in
                 {"reload", "shoot", "crouch", "run", "walk", "idle"}
            /\ as.isReloading => currentAnimation = "reload"
            /\ ~as.isReloading /\ as.isShooting => currentAnimation = "shoot"
            /\ ~as.isReloading /\ ~as.isShooting /\ as.isCrouching
                 => currentAnimation = "crouch"
            /\ ~as.isReloading /\ ~as.isShooting /\ ~as.isCrouching
                 /\ as.isRunning => currentAnimation = "run"
            /\ ~as.isReloading /\ ~as.isShooting /\ ~as.isCrouching
                 /\ ~as.isRunning /\ fast => currentAnimation = "walk"
            /\ ~as.isReloading /\ ~as.isShooting /\ ~as.isCrouching
                 /\ ~as.isRunning /\ ~fast => currentAnimation = "idle"

C1_Witness ==
    /\ call.op = "UpdateAnimation"
    /\ animState.isCrouching /\ animState.isRunning /\ animState.isAiming
    /\ ~animState.isReloading /\ ~animState.isShooting
    /\ Length(velocity.v) = 2
    /\ currentAnimation = "crouch"

\* C2: the inventory never holds more than 3 weapons; PickupWeapon returns
\* true and appends the weapon iff the inventory holds fewer than 3, and
\* otherwise returns false and leaves inventory and currentWeapon unchanged.
C2_PickupBounded ==
    [][ /\ Len(inventory') <= 3
        /\ call'.op = "PickupWeapon" =>
             IF Len(inventory) < 3
             THEN call'.ret /\ inventory' = Append(inventory, call'.arg[1])
             ELSE ~call'.ret /\ inventory' = inventory
                  /\ currentWeapon' = currentWeapon ]_vars

C2_Witness ==
    /\ call.op = "PickupWeapon" /\ ~call.ret
    /\ Len(inventory) = 3

\* C3: the first successful PickupWeapon call equips the weapon it was
\* given, and no later operation changes currentWeapon.
C3_EquippedFixedByFirstPickup ==
    [][ /\ call'.op = "PickupWeapon" /\ call'.ret /\ inventory = <<>>
             => currentWeapon' = call'.arg[1]
        /\ inventory # <<>> => currentWeapon' = currentWeapon ]_vars

\* C4: Weapon::Shoot decrements currentAmmo by exactly 1 when the weapon
\* is not reloading and has ammunition, and leaves it unchanged otherwise.
C4_WeaponShootDecrements ==
    [][ call'.op = "Weapon::Shoot" =>
          LET before == weapons[call'.arg[1]]
              after == weapons'[call'.arg[1]]
          IN  after.currentAmmo =
                IF ~before.isReloading /\ before.currentAmmo > 0
                THEN before.currentAmmo - 1
                ELSE before.currentAmmo ]_vars

C4_Witness ==
    /\ call.op = "Weapon::Shoot"
    /\ weapons[call.arg[1]].currentAmmo < weapons[call.arg[1]].maxAmmo
    /\ ~weapons[call.arg[1]].isReloading

\* C5: currentAmmo of every weapon stays within 0..maxAmmo.
C5_AmmoInRange ==
    \A w \in WeaponIds :
        0 <= weapons[w].currentAmmo
            /\ weapons[w].currentAmmo <= weapons[w].maxAmmo

C5_Witness ==
    /\ call.op = "Shoot"
    /\ currentWeapon # nullptr
    /\ EquippedAmmo = 0
    /\ weapons[currentWeapon].maxAmmo > 0

\* C6: Character Shoot() with an equipped weapon whose currentAmmo is 0
\* does not fire: the ammo stays 0, isShooting is not set by the call, and
\* afterwards the character's isReloading is true and the reload clip plays.
C6_EmptyShootReloads ==
    [][ call'.op = "Shoot" /\ currentWeapon # nullptr /\ EquippedAmmo = 0 =>
          /\ weapons'[currentWeapon].currentAmmo = 0
          /\ animState'.isShooting = animState.isShooting
          /\ animState'.isReloading
          /\ currentAnimation' = "reload" ]_vars

C6_Witness ==
    /\ call.op = "Shoot"
    /\ currentWeapon # nullptr
    /\ EquippedAmmo = 0
    /\ ~animState.isShooting
    /\ animState.isReloading
    /\ weapons[currentWeapon].isReloading

\* C7 as stated: StartSprint() called while isCrouching or isAiming has no
\* effect: isRunning stays false and no other flag nor the clip changes.
C7_SprintBlockedStaysFalse ==
    [][ call'.op = "StartSprint"
          /\ (animState.isCrouching \/ animState.isAiming) =>
          /\ ~animState'.isRunning
          /\ animState' = animState
          /\ currentAnimation' = currentAnimation ]_vars

\* C7 amended: StartSprint() called while isCrouching or isAiming has no
\* effect: isRunning keeps the value it had (true when the sprint began
\* before the crouch), and no other flag nor the clip changes.
C7_SprintBlockedNoEffect ==
    [][ call'.op = "StartSprint"
          /\ (animState.isCrouching \/ animState.isAiming) =>
          /\ animState' = animState
          /\ currentAnimation' = currentAnimation
          /\ velocity' = velocity ]_vars

C7_Witness ==
    /\ call.op = "StartSprint"
    /\ animState.isCrouching
    /\ ~animState.isRunning
    /\ currentAnimation = "crouch"

\* C8 as stated: with rotationSpeed = 180, Rotate(90, 1.0) increases yaw by
\* 180 degrees wrapped into [0,360): new yaw = (old yaw + 180) mod 360.
\* (Stated for an old yaw that is itself in [0,360), so that a negative
\* yaw left by an earlier Rotate plays no part.)
C8_RotateAddsHalfTurn ==
    [][ call'.op = "Rotate" /\ call'.arg = <<90, 4>>
          /\ 0 <= rotation[2] /\ rotation[2] < 360 =>
          rotation'[2] = (rotation[2] + 180) % 360 ]_vars

\* C8 amended: with rotationSpeed = 180, Rotate(90, 1.0) adds
\* 90 * 180 * 1.0 = 16200 degrees, 45 full turns: the new yaw is
\* (old yaw + 16200) mod 360, which lies in [0,360).
C8_RotateAddsProduct ==
    [][ call'.op = "Rotate" /\ call'.arg = <<90, 4>> =>
          /\ rotation'[2] = (rotation[2] + 16200) % 360
          /\ 0 <= rotation'[2] /\ rotation'[2] < 360 ]_vars

C8_Witness ==
    /\ call.op = "Rotate" /\ call.arg = <<90, 4>>
    /\ rotation[2] = 315

\* C9: after any sequence of Rotate calls the stored yaw lies in [0, 360).
C9_YawInRange == 0 <= rotation[2] /\ rotation[2] < 360

\* C10: once the character's isReloading flag, or a weapon's, is true it
\* stays true: no operation clears it.
C10_ReloadingNeverCleared ==
    [][ /\ animState.isReloading => animState'.isReloading
        /\ \A w \in WeaponIds :
             weapons[w].isReloading => weapons'[w].isReloading ]_vars

C10_Witness ==
    /\ animState.isReloading
    /\ currentWeapon # nullptr
    /\ weapons[currentWeapon].isReloading
    /\ call.op = "StopSprint"

\* C11: a weapon's currentAmmo never increases; once the equipped weapon is
\* empty and the out-of-ammo Shoot has set the character reloading, every
\* later Character Shoot() and Reload() call changes no state.
C11_AmmoNeverRefilled ==
    [][ /\ \A w \in WeaponIds :
             weapons'[w].currentAmmo <= weapons[w].currentAmmo
        /\ \A w \in WeaponIds :
             weapons[w].currentAmmo = 0 => weapons'[w].currentAmmo = 0
        /\ call'.op \in {"Shoot", "Reload"} /\ currentWeapon # nullptr
             /\ EquippedAmmo = 0 /\ animState.isReloading
             => progVars' = progVars ]_vars

C11_Witness ==
    /\ call.op = "Reload"
    /\ currentWeapon # nullptr
    /\ EquippedAmmo = 0
    /\ animState.isShooting
    /\ animState.isReloading
    /\ weapons[currentWeapon].isReloading

\* C12: Character Shoot() and Reload() change nothing (flags, weapon ammo
\* and reloading flag, clip) when no weapon is equipped or the character's
\* isReloading is already true.
C12_ShootReloadNoOp ==
    [][ call'.op \in {"Shoot", "Reload"}
          /\ (currentWeapon = nullptr \/ animState.isReloading)
          => progVars' = progVars ]_vars

C12_Witness ==
    /\ call.op = "Reload"
    /\ currentWeapon = nullptr
    /\ ~animState.isReloading
    /\ inventory # <<>>

\* C13: Weapon::NeedsReload() is true iff currentAmmo = 0, and gives the
\* same result for two weapon states that differ only in isReloading.
C13_NeedsReloadIffEmpty ==
    \A w \in WeaponIds :
        /\ NeedsReload(weapons[w]) <=> weapons[w].currentAmmo = 0
        /\ NeedsReload([weapons[w] EXCEPT !.isReloading = TRUE])
             <=> NeedsReload([weapons[w] EXCEPT !.isReloading = FALSE])

C13_Witness ==
    \E w \in WeaponIds :
        /\ weapons[w].isReloading
        /\ weapons[w].currentAmmo > 0
        /\ call.op = "Weapon::StartReload"

\* C14: one Character Shoot() call never both fires (ammo decremented or
\* isShooting newly set) and reloads (a reloading flag newly set).
C14_ShootXorReload ==
    [][ call'.op = "Shoot" =>
          LET fired ==
                \/ ~animState.isShooting /\ animState'.isShooting
                \/ \E w \in WeaponIds :
                     weapons'[w].currentAmmo # weapons[w].currentAmmo
              reloaded ==
                \/ ~animState.isReloading /\ animState'.isReloading
                \/ \E w \in WeaponIds :
                     ~weapons[w].isReloading /\ weapons'[w].isReloading
          IN  ~(fired /\ reloaded) ]_vars

C14_Witness ==
    /\ call.op = "Shoot"
    /\ currentWeapon # nullptr
    /\ EquippedAmmo = 0
    /\ animState.isShooting
    /\ ~animState.isReloading
    /\ ~weapons[currentWeapon].isReloading
    /\ currentAnimation = "shoot"

\* C15 as stated: no sequence of public operations reaches a state in
\* which isRunning and isCrouching are both true.
C15_NeverRunningAndCrouching ==
    ~(animState.isRunning /\ animState.isCrouching)

\* C15 amended: isRunning and isCrouching become true together only by
\* ToggleCrouch called while running (it has no guard); StartSprint never
\* sets isRunning while crouching.
C15_OnlyToggleCrouchWhileRunning ==
    [][ /\ animState'.isRunning /\ animState'.isCrouching
             /\ ~(animState.isRunning /\ animState.isCrouching)
             => call'.op = "ToggleCrouch" /\ animState.isRunning
        /\ animState.isCrouching /\ ~animState.isRunning
             => ~animState'.isRunning ]_vars

C15_Witness ==
    /\ call.op = "ToggleCrouch"
    /\ animState.isRunning
    /\ animState.isCrouching
    /\ currentAnimation = "crouch"

\* C16: in every reachable state isAiming is not true together with
\* isRunning or isCrouching.
C16_AimingExcludesRunCrouch ==
    ~(animState.isAiming /\ (animState.isRunning \/ animState.isCrouching))

C16_Witness ==
    /\ animState.isRunning
    /\ animState.isCrouching
    /\ ~animState.isAiming
    /\ call.op = "ToggleCrouch"

\* C17: Move sets the speed to base speed 5.0 times 0.5 when isCrouching,
\* else times 1.5 when isRunning, else times 1: 2.5, 7.5 or 5.0; with both
\* flags true the crouch multiplier applies.
C17_MoveSpeed ==
    [][ call'.op = "Move" /\ Length(call'.arg) > 0 =>
          /\ ~velocity'.nan
          /\ Length(velocity'.v) =
               IF animState.isCrouching THEN 25
               ELSE IF animState.isRunning THEN 75
               ELSE 50 ]_vars

C17_Witness ==
    /\ call.op = "Move" /\ Length(call.arg) > 0
    /\ animState.isCrouching /\ animState.isRunning
    /\ velocity = Vec(<<0, 0, -25>>)

\* C18: in every reachable state either no clip has been played or the
\* playing clip is the one DetermineAnimation returns for the current
\* flags and velocity.
C18_ClipMatchesState ==
    \/ currentAnimation = "none"
    \/ currentAnimation = DetermineAnimation(animState, velocity)

C18_Witness ==
    /\ call.op = "Shoot"
    /\ animState.isCrouching /\ animState.isRunning
    /\ animState.isShooting /\ ~animState.isReloading
    /\ FasterThanWalkThreshold(velocity)
    /\ currentAnimation = "shoot"

\* C19: isShooting, once true, is never cleared, and while it is true every
\* clip selected is shoot or reload, never crouch, run, walk or idle.
C19_ShootingSticks ==
    [][ /\ animState.isShooting => animState'.isShooting
        /\ animState'.isShooting
             => currentAnimation' \in {"shoot", "reload"} ]_vars

C19_Witness ==
    /\ call.op = "ToggleCrouch"
    /\ animState.isShooting /\ animState.isCrouching
    /\ ~animState.isReloading
    /\ currentAnimation = "shoot"

\* C20: with the character the only caller of its weapons, isReloading of
\* the character implies a weapon is equipped and that weapon's isReloading
\* is true, and currentWeapon is none exactly when the inventory is empty
\* and otherwise a weapon of the inventory.
C20_EquippedConsistent ==
    /\ animState.isReloading =>
         currentWeapon # nullptr /\ weapons[currentWeapon].isReloading
    /\ \/ currentWeapon = nullptr /\ inventory = <<>>
       \/ currentWeapon # nullptr /\ currentWeapon \in InventorySet

===========================================================================
